---------------------------- MODULE Spec2Model ----------------------------
(***************************************************************************)
(* bfind: the three-stage path queue (src/src/path_queue.rs) and the       *)
(* work-stealing traversal pool built on it (src/src/main.rs).             *)
(*                                                                         *)
(* A path is a sequence of non-zero bytes.  Every thread is a record with  *)
(* a program position pc; a call of PathQueue::push or PathQueue::pop is a *)
(* run of steps of the calling thread, one step per access to shared       *)
(* state that another thread can observe.                                  *)
(***************************************************************************)
EXTENDS Integers, Sequences, FiniteSets, Bags

VARIABLES
    queues,     \* [queue index -> PathQueue]
    th,         \* [thread id -> thread record]
    next_path,  \* test harness: number of the next fresh path to push
    popped,     \* test harness: paths returned by successful pops, in order
    n_accepted, \* test harness: pushes that returned Ok(None)
    n_popped,   \* test harness: pops that returned Ok(Some(_))
    call,       \* test harness: [thread id -> the path passed to its call, and
                \* whether the call has changed the queue]
    env,        \* pool: the file system, the options and the root arguments
    counter,    \* pool: the outstanding-work counter
    emitted,    \* pool: the bag of paths printed to standard output
    scanned     \* pool: the bag of paths popped and handed to read_dir

\* the variables of the test harness and those of the pool
hvars == <<next_path, popped, n_accepted, n_popped, call>>
pvars == <<env, counter, emitted, scanned>>

vars == <<queues, th, hvars, pvars>>

-----------------------------------------------------------------------------
(* Bounds of the model *)

\* requested ring capacities range over 1..MaxCap
MaxCap == 2
\* paths pushed by the test harness with one producer
MaxPush == 6
\* paths pushed by the test harness when every thread may push and pop
MaxPushAny == 3
\* the first harness path is FirstPath.to_string()
FirstPath == 8
\* symlinks the kernel follows while it resolves one path
MaxSymlinks == 2
\* requested ring capacity of the pool's queues
PoolCap == 1
\* requested capacities of a ring on its own range over 1..MaxRingCap
MaxRingCap == 3
\* paths pushed to a ring on its own
MaxRingPush == 4
\* a ring on its own starts up to MaxWrapBack calls before its counts wrap
MaxWrapBack == 2
\* a worker on its own steals among 1..MaxQueues queues
MaxQueues == 4

-----------------------------------------------------------------------------
(* Integers of the program *)

\* A u32 (the ring's AtomicU32 counters) is the pair <<high half, low half>> of
\* its 16-bit halves, so the full 32-bit width is kept with small numbers.
Half == 65536

\* the u32 of a number below 2^31
U32Of(n) == <<n \div Half, n % Half>>

\* fetch_add(n) on a u32, n < 2^16: wrapping modulo 2^32
Add32(a, n) ==
    LET lo == a[2] + n IN
    <<(a[1] + (lo \div Half)) % Half, lo % Half>>

\* a - b on u32, wrapping modulo 2^32
Sub32(a, b) ==
    LET lo == a[2] - b[2]
        borrow == IF lo < 0 THEN 1 ELSE 0 IN
    <<(a[1] - b[1] - borrow + Half) % Half, (lo + Half) % Half>>

\* a u32 as a number; a u32 of 2^16 or more counts as 2^16 (it is used for
\* the number of paths in a ring, which never exceeds the capacity)
Count32(a) == IF a[1] = 0 THEN a[2] ELSE Half

RECURSIVE NextPowerOfTwoFrom(_, _)
NextPowerOfTwoFrom(p, n) == IF p >= n THEN p ELSE NextPowerOfTwoFrom(2 * p, n)

\* u32::next_power_of_two
NextPowerOfTwo(n) == NextPowerOfTwoFrom(1, n)

\* the slot index count & (capacity - 1), capacity a power of two up to 2^16
Mask(count, capacity) == count[2] % capacity

-----------------------------------------------------------------------------
(* Paths *)

NUL == 0

\* a slot of a ring that holds no path (uninitialised or moved out): a byte
\* string no path equals, since no path holds NUL
Uninit == <<NUL>>

RECURSIVE to_string(_)
\* i.to_string(): the decimal digits of i as ASCII bytes
to_string(i) == IF i < 10 THEN <<48 + i>> ELSE Append(to_string(i \div 10), 48 + (i % 10))

\* the k-th path of the test harness
PathOf(k) == to_string(FirstPath + k - 1)

-----------------------------------------------------------------------------
(* MemPathQueue: the ring *)

MemPathQueueNew(capacity) ==
    LET c == NextPowerOfTwo(capacity) IN
    [capacity |-> c, pop_count |-> U32Of(0), push_count |-> U32Of(0),
     buf |-> [i \in 0..(c - 1) |-> Uninit]]

RingLen(r) == Sub32(r.push_count, r.pop_count)

\* a full test that never finds the ring full
RingFullNever(r) == FALSE

RingFull(r) == RingLen(r) = U32Of(r.capacity)

RingEmpty(r) == RingLen(r) = U32Of(0)

\* MemPathQueue::push past its full check: slot write, then fetch_add
RingWrite(r, path) ==
    [r EXCEPT !.buf[Mask(r.push_count, r.capacity)] = path,
              !.push_count = Add32(@, 1)]

\* the path MemPathQueue::pop reads
RingFront(r) == r.buf[Mask(r.pop_count, r.capacity)]

\* MemPathQueue::pop past its empty check: slot read (moved out), then fetch_add
RingRead(r) ==
    [r EXCEPT !.buf[Mask(r.pop_count, r.capacity)] = Uninit,
              !.pop_count = Add32(@, 1)]

\* a ring push that drops the path
MemPushDropped(r, path) == r

\* MemPathQueue::push as one step, for a caller that excludes every other
\* access to the ring: the ring afterwards (unchanged when full)
MemPush(r, path) == IF RingFull(r) THEN r ELSE RingWrite(r, path)

\* MemPathQueue::state
MemState(r) ==
    IF RingLen(r) = U32Of(0) THEN "Empty"
    ELSE IF RingLen(r) = U32Of(r.capacity) THEN "Full"
    ELSE "PartiallyFilled"

\* the paths a ring holds, oldest first
RingSeq(r) ==
    [i \in 1..Count32(RingLen(r)) |-> r.buf[Mask(Add32(r.pop_count, i - 1), r.capacity)]]

-----------------------------------------------------------------------------
(* TempfilePathQueue: the spill log *)

\* Option<TempfilePathQueue>::None
MidNone == [exists |-> FALSE, pop_count |-> 0, push_count |-> 0, file |-> <<>>, rpos |-> 0]

\* TempfilePathQueue::new: an empty file, reader at its start
TempfileNew == [exists |-> TRUE, pop_count |-> 0, push_count |-> 0, file |-> <<>>, rpos |-> 0]

\* TempfilePathQueue::push: the path's bytes, a NUL, flush, fetch_add
TempfilePush(m, path) ==
    [m EXCEPT !.file = @ \o path \o <<NUL>>, !.push_count = @ + 1]

TempfileEmpty(m) == m.push_count - m.pop_count = 0

\* read_until(b'\0'): the position of the first NUL after the reader's cursor
\* (the end of the file when there is none)
ReadUntil(m) ==
    LET nuls == {i \in (m.rpos + 1)..Len(m.file) : m.file[i] = NUL} IN
    IF nuls = {} THEN Len(m.file)
    ELSE CHOOSE i \in nuls : \A j \in nuls : i <= j

\* the path TempfilePathQueue::pop returns: the bytes read, delimiter popped
TempfileFront(m) ==
    LET e == ReadUntil(m) IN
    [i \in 1..(e - m.rpos - 1) |-> m.file[m.rpos + i]]

\* TempfilePathQueue::pop past its empty check
TempfileRead(m) ==
    [m EXCEPT !.rpos = ReadUntil(m), !.pop_count = @ + 1]

\* TempfilePathQueue::state
TempfileState(m) == IF TempfileEmpty(m) THEN "Empty" ELSE "PartiallyFilled"

RECURSIVE TempfileSeqFrom(_, _)
TempfileSeqFrom(m, n) ==
    IF n = 0 THEN <<>>
    ELSE <<TempfileFront(m)>> \o TempfileSeqFrom(TempfileRead(m), n - 1)

\* the paths the spill log holds, oldest first
TempfileSeq(m) == TempfileSeqFrom(m, m.push_count - m.pop_count)

-----------------------------------------------------------------------------
(* SpinLock *)

\* a try_lock that takes the lock whatever its flag
TryLockBlind(locked) == {TRUE}

\* SpinLock::try_lock on a lock whose flag is `locked`: the results
\* compare_exchange_weak(false, true) can give, TRUE for Ok.  It fails when the
\* flag is set; the weak exchange may also fail when the flag is clear.
try_lock(locked) == IF locked THEN {FALSE} ELSE {TRUE, FALSE}

-----------------------------------------------------------------------------
(* PathQueue *)

\* PathQueue::new
PathQueueNew(read_buf_len, write_buf_len) ==
    [push_count |-> 0, pop_count |-> 0,
     pushing |-> FALSE, popping |-> FALSE, spilling |-> FALSE,
     left |-> MemPathQueueNew(read_buf_len),
     mid |-> MidNone,
     right |-> MemPathQueueNew(write_buf_len)]

RECURSIVE DrainToLeft(_)
\* while let Some(p) = right.pop() { if let Some(p) = left.push(p) { mid.push(&p)?; } }
DrainToLeft(q) ==
    IF RingEmpty(q.right) THEN q
    ELSE LET p == RingFront(q.right)
             q1 == [q EXCEPT !.right = RingRead(@)] IN
         IF RingFull(q1.left)
         THEN DrainToLeft([q1 EXCEPT !.mid = TempfilePush(@, p)])
         ELSE DrainToLeft([q1 EXCEPT !.left = RingWrite(@, p)])

RECURSIVE DrainToMid(_)
\* while let Some(p) = right.pop() { mid.push(&p)?; }
DrainToMid(q) ==
    IF RingEmpty(q.right) THEN q
    ELSE LET p == RingFront(q.right) IN
         DrainToMid([q EXCEPT !.right = RingRead(@), !.mid = TempfilePush(@, p)])

\* a drain that ignores the paths still in mid
DrainsToLeftAlways(m) == TRUE

\* which way push drains right: into left when mid is empty
DrainsToLeft(m) == TempfileEmpty(m)

\* PathQueue::push with the spilling lock held: create mid, drain right, and
\* push the path into right
Spill(q, path) ==
    LET q1 == IF q.mid.exists THEN q ELSE [q EXCEPT !.mid = TempfileNew]
        q2 == IF DrainsToLeft(q1.mid) THEN DrainToLeft(q1) ELSE DrainToMid(q1)
    IN  [q2 EXCEPT !.right = MemPush(@, path)]

\* PathQueue::is_empty, the test at the head of PathQueue::pop
IsEmpty(q) == q.push_count - q.pop_count = 0

\* where pop takes its path from: left, else mid, else right
PopStage(q) ==
    IF ~RingEmpty(q.left) THEN "left"
    ELSE IF q.mid.exists /\ ~TempfileEmpty(q.mid) THEN "mid"
    ELSE IF ~RingEmpty(q.right) THEN "right"
    ELSE "none"

\* the stages of a queue: PathQueue::state
State(q) == <<MemState(q.left),
              IF q.mid.exists THEN TempfileState(q.mid) ELSE "Empty",
              MemState(q.right)>>

\* what a queue holds: the paths of left, mid and right, and its two counts
Contents(q) ==
    <<RingSeq(q.left), TempfileSeq(q.mid), RingSeq(q.right), q.push_count, q.pop_count>>

\* the paths resident in a queue, in the order pop takes them
Resident(q) == RingSeq(q.left) \o TempfileSeq(q.mid) \o RingSeq(q.right)

-----------------------------------------------------------------------------
(* PathQueue::push, step by step, for thread t on queue th[t].q *)

Goto(t, pc) == th' = [th EXCEPT ![t].pc = pc]

\* return Ok(Some(path)) / Ok(None) from push, Ok(None) / Ok(Some(path)) from pop
Return(t, pc, some, path) ==
    th' = [th EXCEPT ![t].pc = pc, ![t].ret_some = some, ![t].path = path]

\* a push that counts its path although the pushing lock was not taken
PushTryPushingCounted(t) ==
    /\ th[t].pc = "push_try_pushing"
    /\ \E ok \in try_lock(queues[th[t].q].pushing) :
          IF ok
          THEN /\ queues' = [queues EXCEPT ![th[t].q].pushing = TRUE]
               /\ Goto(t, "push_right")
          ELSE /\ th' = [th EXCEPT ![t].pc = "push_ret", ![t].ret_some = TRUE,
                                   ![t].cas_prev = queues[th[t].q].pushing]
               /\ queues' = [queues EXCEPT ![th[t].q].push_count = @ + 1]

\* if let Ok(_pushing) = self.pushing.try_lock() ... else { Ok(Some(path)) }
PushTryPushing(t) ==
    /\ th[t].pc = "push_try_pushing"
    /\ \E ok \in try_lock(queues[th[t].q].pushing) :
          IF ok
          THEN /\ queues' = [queues EXCEPT ![th[t].q].pushing = TRUE]
               /\ Goto(t, "push_right")
          ELSE /\ th' = [th EXCEPT ![t].pc = "push_ret", ![t].ret_some = TRUE,
                                   ![t].cas_prev = queues[th[t].q].pushing]
               /\ UNCHANGED queues

\* right.push(path): the loads and the full test of MemPathQueue::push
PushRight(t) ==
    /\ th[t].pc = "push_right"
    /\ IF RingFull(queues[th[t].q].right)
       THEN Goto(t, "push_try_spilling")
       ELSE Goto(t, "push_right_write")
    /\ UNCHANGED queues

\* right.push(path): the slot write and the fetch_add of MemPathQueue::push
PushRightWrite(t) ==
    /\ th[t].pc = "push_right_write"
    /\ queues' = [queues EXCEPT ![th[t].q].right = RingWrite(@, th[t].path)]
    /\ Goto(t, "push_count")

\* a push that drains right without taking the spilling lock
PushTrySpillingUnlocked(t) ==
    /\ th[t].pc = "push_try_spilling"
    /\ Goto(t, "push_spill")
    /\ UNCHANGED queues

\* if let Ok(_spilling) = self.spilling.try_lock() ... else { return Ok(Some(path)) }
PushTrySpilling(t) ==
    /\ th[t].pc = "push_try_spilling"
    /\ \E ok \in try_lock(queues[th[t].q].spilling) :
          IF ok
          THEN /\ queues' = [queues EXCEPT ![th[t].q].spilling = TRUE]
               /\ Goto(t, "push_spill")
          ELSE /\ queues' = [queues EXCEPT ![th[t].q].pushing = FALSE]
               /\ th' = [th EXCEPT ![t].pc = "push_ret", ![t].ret_some = TRUE,
                                   ![t].cas_prev = queues[th[t].q].spilling]

\* the drain and the second right.push under the spilling lock, which is then
\* dropped
PushSpill(t) ==
    /\ th[t].pc = "push_spill"
    /\ queues' = [queues EXCEPT ![th[t].q] =
                     [Spill(@, th[t].path) EXCEPT !.spilling = FALSE]]
    /\ Goto(t, "push_count")

\* self.push_count.fetch_add(1); Ok(None), dropping the pushing lock
PushCount(t) ==
    /\ th[t].pc = "push_count"
    /\ queues' = [queues EXCEPT ![th[t].q].push_count = @ + 1,
                                ![th[t].q].pushing = FALSE]
    /\ Return(t, "push_ret", FALSE, th[t].path)

PushStep(t) ==
    \/ PushTryPushing(t)
    \/ PushRight(t)
    \/ PushRightWrite(t)
    \/ PushTrySpilling(t)
    \/ PushSpill(t)
    \/ PushCount(t)

-----------------------------------------------------------------------------
(* PathQueue::pop, step by step, for thread t on queue th[t].q *)

\* if let Ok(_popping) = self.popping.try_lock() ... else { Ok(None) }
PopTryPopping(t) ==
    /\ th[t].pc = "pop_try_popping"
    /\ \E ok \in try_lock(queues[th[t].q].popping) :
          IF ok
          THEN /\ queues' = [queues EXCEPT ![th[t].q].popping = TRUE]
               /\ Goto(t, "pop_check")
          ELSE /\ th' = [th EXCEPT ![t].pc = "pop_ret", ![t].ret_some = FALSE,
                                   ![t].cas_prev = queues[th[t].q].popping]
               /\ UNCHANGED queues

\* a pop that goes on to the spilling lock without testing the counts
PopCheckSkipped(t) ==
    /\ th[t].pc = "pop_check"
    /\ Goto(t, "pop_try_spilling")
    /\ UNCHANGED queues

\* if push_count - pop_count == 0 { return Ok(None) }
PopCheck(t) ==
    /\ th[t].pc = "pop_check"
    /\ IF IsEmpty(queues[th[t].q])
       THEN /\ queues' = [queues EXCEPT ![th[t].q].popping = FALSE]
            /\ th' = [th EXCEPT ![t].pc = "pop_ret", ![t].ret_some = FALSE,
                                ![t].cas_prev = FALSE]
       ELSE /\ Goto(t, "pop_try_spilling")
            /\ UNCHANGED queues

\* if let Ok(_spilling) = self.spilling.try_lock() ... else { return Ok(None) }
PopTrySpilling(t) ==
    /\ th[t].pc = "pop_try_spilling"
    /\ \E ok \in try_lock(queues[th[t].q].spilling) :
          IF ok
          THEN /\ queues' = [queues EXCEPT ![th[t].q].spilling = TRUE]
               /\ Goto(t, "pop_take")
          ELSE /\ queues' = [queues EXCEPT ![th[t].q].popping = FALSE]
               /\ th' = [th EXCEPT ![t].pc = "pop_ret", ![t].ret_some = FALSE,
                                   ![t].cas_prev = queues[th[t].q].spilling]

\* left.pop(), else mid.pop(), else the loads and the empty test of right.pop()
PopTake(t) ==
    /\ th[t].pc = "pop_take"
    /\ LET q == queues[th[t].q]
           stage == PopStage(q) IN
       CASE stage = "left" ->
              /\ queues' = [queues EXCEPT ![th[t].q].left = RingRead(@),
                                          ![th[t].q].spilling = FALSE]
              /\ th' = [th EXCEPT ![t].pc = "pop_count", ![t].path = RingFront(q.left)]
         [] stage = "mid" ->
              /\ queues' = [queues EXCEPT ![th[t].q].mid = TempfileRead(@),
                                          ![th[t].q].spilling = FALSE]
              /\ th' = [th EXCEPT ![t].pc = "pop_count", ![t].path = TempfileFront(q.mid)]
         [] stage = "right" ->
              /\ Goto(t, "pop_right_read")
              /\ UNCHANGED queues
         [] OTHER ->
              /\ queues' = [queues EXCEPT ![th[t].q].spilling = FALSE,
                                          ![th[t].q].popping = FALSE]
              /\ th' = [th EXCEPT ![t].pc = "pop_ret", ![t].ret_some = FALSE,
                                  ![t].cas_prev = FALSE]

\* right.pop(): the slot read and the fetch_add of MemPathQueue::pop; the
\* spilling lock is dropped
PopRightRead(t) ==
    /\ th[t].pc = "pop_right_read"
    /\ queues' = [queues EXCEPT ![th[t].q].right = RingRead(@),
                                ![th[t].q].spilling = FALSE]
    /\ th' = [th EXCEPT ![t].pc = "pop_count",
                        ![t].path = RingFront(queues[th[t].q].right)]

\* self.pop_count.fetch_add(1); Ok(Some(path)), dropping the popping lock
PopCount(t) ==
    /\ th[t].pc = "pop_count"
    /\ queues' = [queues EXCEPT ![th[t].q].pop_count = @ + 1,
                                ![th[t].q].popping = FALSE]
    /\ Return(t, "pop_ret", TRUE, th[t].path)

PopStep(t) ==
    \/ PopTryPopping(t)
    \/ PopCheck(t)
    \/ PopTrySpilling(t)
    \/ PopTake(t)
    \/ PopRightRead(t)
    \/ PopCount(t)

-----------------------------------------------------------------------------
(* The file system the traversal reads.  A node is a directory entry:      *)
(* name (bytes), kind, the entries of a directory in read_dir order, and   *)
(* for a symlink the node it points to and the text read_link returns.     *)
(* Node 0 is the current directory.                                        *)

Slash == 47
Dot == 46

DotPath == <<Dot>>

Dir(name, children) ==
    [name |-> name, kind |-> "dir", children |-> children, target |-> 0,
     text |-> <<>>, utf8 |-> TRUE]

File(name, utf8) ==
    [name |-> name, kind |-> "file", children |-> <<>>, target |-> 0,
     text |-> <<>>, utf8 |-> utf8]

Link(name, target, text) ==
    [name |-> name, kind |-> "link", children |-> <<>>, target |-> target,
     text |-> text, utf8 |-> TRUE]

\* ./a/c  ./b : three directories and a file
PlainTree ==
    [n \in 0..3 |->
        CASE n = 0 -> Dir(DotPath, <<1, 2>>)
          [] n = 1 -> Dir(<<97>>, <<3>>)
          [] n = 2 -> Dir(<<98>>, <<>>)
          [] n = 3 -> File(<<99>>, TRUE)]

\* ./.h/x  ./n/y  ./<name that is not UTF-8>  ./a/z
FilterTree ==
    [n \in 0..7 |->
        CASE n = 0 -> Dir(DotPath, <<1, 2, 3, 4>>)
          [] n = 1 -> Dir(<<Dot, 104>>, <<5>>)
          [] n = 2 -> Dir(<<110>>, <<6>>)
          [] n = 3 -> File(<<255>>, FALSE)
          [] n = 4 -> Dir(<<97>>, <<7>>)
          [] n = 5 -> File(<<120>>, TRUE)
          [] n = 6 -> File(<<121>>, TRUE)
          [] n = 7 -> File(<<122>>, TRUE)]

\* ./l -> . : a directory that holds a symlink to itself
LoopTree ==
    [n \in 0..1 |->
        CASE n = 0 -> Dir(DotPath, <<1>>)
          [] n = 1 -> Link(<<108>>, 0, DotPath)]

\* ./a  ./b  ./c/d : three subdirectories, more than the rings of a queue hold
WideTree ==
    [n \in 0..4 |->
        CASE n = 0 -> Dir(DotPath, <<1, 2, 3>>)
          [] n = 1 -> Dir(<<97>>, <<>>)
          [] n = 2 -> Dir(<<98>>, <<>>)
          [] n = 3 -> Dir(<<99>>, <<4>>)
          [] n = 4 -> File(<<100>>, TRUE)]

\* ./a/e  ./b : two subdirectories, the first with a subdirectory
DeepTree ==
    [n \in 0..3 |->
        CASE n = 0 -> Dir(DotPath, <<1, 2>>)
          [] n = 1 -> Dir(<<97>>, <<3>>)
          [] n = 2 -> Dir(<<98>>, <<>>)
          [] n = 3 -> Dir(<<101>>, <<>>)]

\* ./.h/d/x : a directory beneath a hidden directory
HiddenTree ==
    [n \in 0..3 |->
        CASE n = 0 -> Dir(DotPath, <<1>>)
          [] n = 1 -> Dir(<<Dot, 104>>, <<2>>)
          [] n = 2 -> Dir(<<100>>, <<3>>)
          [] n = 3 -> File(<<120>>, TRUE)]

\* ./f  ./s -> ./f : a symlink to a file
LinkTree ==
    [n \in 0..2 |->
        CASE n = 0 -> Dir(DotPath, <<1, 2>>)
          [] n = 1 -> File(<<102>>, TRUE)
          [] n = 2 -> Link(<<115>>, 1, <<Dot, Slash, 102>>)]

\* Options::new(), then what -H, -L and -I set
Options(allow_hidden, follow_links, ignores) ==
    [allow_hidden |-> allow_hidden, follow_links |-> follow_links,
     max_depth |-> 2147483647, ignores |-> ignores, strip_cwd_prefix |-> FALSE]

\* -d N: opts.max_depth = depth, for N >= 1
WithDepth(opt, depth) == [opt EXCEPT !.max_depth = depth]

\* the runs of the program the model covers: a file system, the options and
\* the root arguments of the command line
Environments ==
    {[fs |-> PlainTree, opt |-> Options(FALSE, FALSE, {}), roots |-> <<>>],
     [fs |-> PlainTree, opt |-> Options(FALSE, FALSE, {}), roots |-> <<<<97>>, <<98>>>>],
     [fs |-> PlainTree, opt |-> WithDepth(Options(FALSE, FALSE, {}), 1), roots |-> <<>>],
     [fs |-> WideTree, opt |-> Options(FALSE, FALSE, {}), roots |-> <<>>],
     [fs |-> FilterTree, opt |-> Options(FALSE, FALSE, {<<110>>}), roots |-> <<>>],
     [fs |-> FilterTree, opt |-> Options(TRUE, FALSE, {<<110>>}), roots |-> <<>>],
     [fs |-> HiddenTree, opt |-> Options(FALSE, FALSE, {}),
      roots |-> <<DotPath, <<Dot, Slash, Dot, 104, Slash, 100>>>>],
     [fs |-> LoopTree, opt |-> Options(FALSE, FALSE, {}), roots |-> <<>>],
     [fs |-> LinkTree, opt |-> Options(FALSE, TRUE, {}), roots |-> <<>>]}

\* entry.path(): the directory's path joined with the entry's name
Join(path, name) == path \o <<Slash>> \o name

RECURSIVE Components(_)
\* the components of a path
Components(path) ==
    IF path = <<>> THEN <<>>
    ELSE LET cut == {i \in 1..Len(path) : path[i] = Slash}
             e == IF cut = {} THEN Len(path) + 1
                  ELSE CHOOSE i \in cut : \A j \in cut : i <= j
         IN  <<SubSeq(path, 1, e - 1)>> \o
             (IF e >= Len(path) THEN <<>> ELSE Components(SubSeq(path, e + 1, Len(path))))

NoNode == [ok |-> FALSE, node |-> 0, links |-> 0]

RECURSIVE Deref(_, _, _)
\* follow the symlinks at node n, k followed so far; more than MaxSymlinks is
\* the kernel's ELOOP
Deref(fs, n, k) ==
    IF fs[n].kind # "link" THEN [ok |-> TRUE, node |-> n, links |-> k]
    ELSE IF k + 1 > MaxSymlinks THEN NoNode
    ELSE Deref(fs, fs[n].target, k + 1)

RECURSIVE Walk(_, _, _, _)
\* the entry a path names, from directory n, the last component not followed
Walk(fs, n, comps, k) ==
    IF comps = <<>> THEN [ok |-> TRUE, node |-> n, links |-> k]
    ELSE LET d == Deref(fs, n, k) IN
         IF ~d.ok \/ fs[d.node].kind # "dir" THEN NoNode
         ELSE IF Head(comps) = DotPath THEN Walk(fs, d.node, Tail(comps), d.links)
         ELSE LET next == {c \in {fs[d.node].children[i] : i \in 1..Len(fs[d.node].children)} :
                              fs[c].name = Head(comps)} IN
              IF next = {} THEN NoNode
              ELSE Walk(fs, CHOOSE c \in next : TRUE, Tail(comps), d.links)

\* symlink_metadata(path)
LStat(fs, path) == Walk(fs, 0, Components(path), 0)

\* metadata(path), which follows symlinks
Stat(fs, path) ==
    LET l == LStat(fs, path) IN
    IF l.ok THEN Deref(fs, l.node, l.links) ELSE NoNode

\* Path::is_dir: metadata(path), so a symlink to a directory is a directory
is_dir(fs, path) == LET s == Stat(fs, path) IN s.ok /\ fs[s.node].kind = "dir"

\* Path::is_symlink: symlink_metadata(path)
is_symlink(fs, path) == LET l == LStat(fs, path) IN l.ok /\ fs[l.node].kind = "link"

\* fs::read_dir(path): Ok(entries) or Err
read_dir(fs, path) ==
    LET s == Stat(fs, path) IN
    IF s.ok /\ fs[s.node].kind = "dir"
    THEN [ok |-> TRUE, entries |-> fs[s.node].children]
    ELSE [ok |-> FALSE, entries |-> <<>>]

-----------------------------------------------------------------------------
(* The test harness of path_queue.rs: threads calling push and pop on one  *)
(* queue.  A thread pushes the harness paths in order and keeps a path     *)
(* that push handed back, to push it again (while let Some(p) =            *)
(* queue.push(path)? { path = p; }).                                       *)

Threads == {1, 2}

\* the record of a call that starts: the path passed in, nothing changed yet
Called(path) == [path |-> path, touched |-> FALSE]

HarnessThread ==
    [pc |-> "idle", q |-> 1, path |-> Uninit, ret_some |-> FALSE, cas_prev |-> FALSE]

InitHarness ==
    /\ \E read_buf_len \in 1..MaxCap, write_buf_len \in 1..MaxCap :
          queues = [i \in {1} |-> PathQueueNew(read_buf_len, write_buf_len)]
    /\ th = [t \in Threads |-> HarnessThread]
    /\ next_path = 1
    /\ popped = <<>>
    /\ n_accepted = 0
    /\ n_popped = 0
    /\ call = [t \in Threads |-> Called(Uninit)]
    /\ env = [fs |-> <<>>, opt |-> Options(FALSE, FALSE, {}), roots |-> <<>>]
    /\ counter = 0
    /\ emitted = EmptyBag
    /\ scanned = EmptyBag

\* a thread between two calls
Between(t) == th[t].pc \in {"idle", "push_ret", "pop_ret"}

\* a thread whose last push handed its path back
Held(t) == th[t].pc = "push_ret" /\ th[t].ret_some

\* queue.push(path), with the path handed back by the last call or else the
\* next fresh one, of at most max
HarnessPush(t, max) ==
    /\ Between(t)
    /\ IF Held(t)
       THEN /\ th' = [th EXCEPT ![t].pc = "push_try_pushing"]
            /\ UNCHANGED next_path
       ELSE /\ next_path <= max
            /\ th' = [th EXCEPT ![t].pc = "push_try_pushing",
                                ![t].path = PathOf(next_path)]
            /\ next_path' = next_path + 1
    /\ call' = [call EXCEPT ![t] = Called(th'[t].path)]
    /\ UNCHANGED <<queues, popped, n_accepted, n_popped, pvars>>

\* queue.pop()
HarnessPop(t) ==
    /\ Between(t)
    /\ ~Held(t)
    /\ th' = [th EXCEPT ![t].pc = "pop_try_popping", ![t].path = Uninit]
    /\ call' = [call EXCEPT ![t] = Called(Uninit)]
    /\ UNCHANGED <<queues, next_path, popped, n_accepted, n_popped, pvars>>

\* push returned Ok(None) in this step
Accepted(t) == th'[t].pc = "push_ret" /\ ~th'[t].ret_some

\* pop returned Ok(Some(path)) in this step
Popped(t) == th'[t].pc = "pop_ret" /\ th'[t].ret_some

\* a step of a call, counting what it returns
QueueStep(t) ==
    /\ PushStep(t) \/ PopStep(t)
    /\ n_accepted' = IF Accepted(t) THEN n_accepted + 1 ELSE n_accepted
    /\ n_popped' = IF Popped(t) THEN n_popped + 1 ELSE n_popped
    /\ call' = [call EXCEPT ![t].touched =
                    @ \/ Contents(queues'[th[t].q]) # Contents(queues[th[t].q])]
    /\ UNCHANGED <<next_path, pvars>>

\* a step of a call whose popped path the test records (eprintln!("popped {}"))
QueueStepLog(t) ==
    /\ QueueStep(t)
    /\ popped' = IF Popped(t) THEN Append(popped, th'[t].path) ELSE popped

\* any thread calls push and pop in any order
Next ==
    \E t \in Threads :
        \/ HarnessPush(t, MaxPushAny)
        \/ HarnessPop(t)
        \/ QueueStep(t) /\ UNCHANGED popped

Spec == InitHarness /\ [][Next]_vars

\* tests::single_thread: one thread
NextSeq ==
    \/ HarnessPush(1, MaxPush)
    \/ HarnessPop(1)
    \/ QueueStepLog(1)

SpecSeq == InitHarness /\ [][NextSeq]_vars

\* tests::spsc: thread 1 produces, thread 2 consumes
NextSpsc ==
    \/ HarnessPush(1, MaxPush)
    \/ HarnessPop(2)
    \/ QueueStepLog(1)
    \/ QueueStepLog(2)

SpecSpsc == InitHarness /\ [][NextSpsc]_vars

-----------------------------------------------------------------------------
(* MemPathQueue::push and MemPathQueue::pop, one step per load, slot       *)
(* access and fetch_add, for one push thread and one pop thread ("safe if  *)
(* and only if there is only one push thread", "... one pop thread").  The *)
(* ring is queues[1].right; a thread keeps the counts it has loaded.       *)

\* a < b as numbers
Less32(a, b) == a[1] < b[1] \/ (a[1] = b[1] /\ a[2] < b[2])

\* 2^32 - k, the count after that many calls, for k in 1..2^16
WrapBack(k) == Sub32(U32Of(0), U32Of(k))

\* the counts a ring starts from: 0 for a new ring, or the counts of an empty
\* ring that has been pushed to and popped from 2^32 - k times
RingStarts == {U32Of(0)} \cup {WrapBack(k) : k \in 1..MaxWrapBack}

\* seen: the number of paths the other thread had pushed, or popped, when
\* this thread loaded the other thread's count
RingThread ==
    [pc |-> "idle", q |-> 1, path |-> Uninit, ret_some |-> FALSE, cas_prev |-> FALSE,
     push_count |-> U32Of(0), pop_count |-> U32Of(0), seen |-> 0, state |-> "none"]

RingProducer == 1
RingConsumer == 2
\* the thread that calls MemPathQueue::state, as PathQueue::state does with the
\* pushing and the popping lock held
RingObserver == 3

\* overflow_checks: whether the build checks `-` on u32 for overflow (on in the
\* dev and test profiles, off in the release profile)
InitRing ==
    /\ \E capacity \in 1..MaxRingCap, start \in RingStarts, overflow_checks \in BOOLEAN :
          /\ queues = [i \in {1} |->
                          [PathQueueNew(1, capacity) EXCEPT !.right.push_count = start,
                                                            !.right.pop_count = start]]
          /\ env = [fs |-> <<>>, opt |-> Options(FALSE, FALSE, {}), roots |-> <<>>,
                    capacity |-> capacity, overflow_checks |-> overflow_checks]
    /\ th = [t \in {RingProducer, RingConsumer, RingObserver} |-> RingThread]
    /\ next_path = 1
    /\ popped = <<>>
    /\ n_accepted = 0
    /\ n_popped = 0
    /\ call = <<>>
    /\ counter = 0
    /\ emitted = EmptyBag
    /\ scanned = EmptyBag

\* the thread is between two calls on the ring
RingBetween(t) == th[t].pc \in {"idle", "mem_push_ret", "mem_pop_ret", "mem_state_ret"}

\* `push_count - pop_count` on the loaded u32 values: the next position when
\* the difference equals `stop`, else `go`; a build with overflow checks
\* panics when push_count < pop_count
MemSubtract(t, pop_count, stop, stop_pc, go_pc) ==
    IF env.overflow_checks /\ Less32(th[t].push_count, pop_count) THEN "panicked"
    ELSE IF Sub32(th[t].push_count, pop_count) = stop THEN stop_pc
    ELSE go_pc

\* a call of MemPathQueue::push by the push thread: the next fresh path, or
\* the path the last call handed back
MemPushCall(t) ==
    /\ RingBetween(t)
    /\ IF th[t].pc = "mem_push_ret" /\ th[t].ret_some
       THEN /\ th' = [th EXCEPT ![t].pc = "mem_push_load_push"]
            /\ UNCHANGED next_path
       ELSE /\ next_path <= MaxRingPush
            /\ th' = [th EXCEPT ![t].pc = "mem_push_load_push",
                                ![t].path = PathOf(next_path)]
            /\ next_path' = next_path + 1
    /\ UNCHANGED <<queues, popped, n_accepted, n_popped, call, pvars>>

\* let push_count = self.push_count.load(Ordering::Acquire);
MemPushLoadPush(t) ==
    /\ th[t].pc = "mem_push_load_push"
    /\ th' = [th EXCEPT ![t].push_count = queues[1].right.push_count,
                        ![t].pc = "mem_push_load_pop"]
    /\ UNCHANGED <<queues, hvars, pvars>>

\* let pop_count = ...load(); if push_count - pop_count == self.capacity { return Some(path); }
MemPushLoadPop(t) ==
    /\ th[t].pc = "mem_push_load_pop"
    /\ LET pop_count == queues[1].right.pop_count
           pc == MemSubtract(t, pop_count, U32Of(queues[1].right.capacity),
                             "mem_push_ret", "mem_push_write") IN
       th' = [th EXCEPT ![t].pop_count = pop_count, ![t].pc = pc,
                        ![t].ret_some = (pc = "mem_push_ret"),
                        ![t].seen = n_popped]
    /\ UNCHANGED <<queues, hvars, pvars>>

\* self.buf.add((push_count & (self.capacity - 1)) as usize).write(path);
MemPushWrite(t) ==
    /\ th[t].pc = "mem_push_write"
    /\ queues' = [queues EXCEPT
                     ![1].right.buf[Mask(th[t].push_count, queues[1].right.capacity)] =
                         th[t].path]
    /\ Goto(t, "mem_push_add")
    /\ UNCHANGED <<hvars, pvars>>

\* self.push_count.fetch_add(1, Ordering::Release); None
MemPushAdd(t) ==
    /\ th[t].pc = "mem_push_add"
    /\ queues' = [queues EXCEPT ![1].right.push_count = Add32(@, 1)]
    /\ th' = [th EXCEPT ![t].pc = "mem_push_ret", ![t].ret_some = FALSE]
    /\ n_accepted' = n_accepted + 1
    /\ UNCHANGED <<next_path, popped, n_popped, call, pvars>>

\* a call of MemPathQueue::pop by the pop thread
MemPopCall(t) ==
    /\ RingBetween(t)
    /\ th' = [th EXCEPT ![t].pc = "mem_pop_load_push", ![t].path = Uninit]
    /\ UNCHANGED <<queues, hvars, pvars>>

\* let push_count = self.push_count.load(Ordering::Acquire);
MemPopLoadPush(t) ==
    /\ th[t].pc = "mem_pop_load_push"
    /\ th' = [th EXCEPT ![t].push_count = queues[1].right.push_count,
                        ![t].pc = "mem_pop_load_pop",
                        ![t].seen = n_accepted]
    /\ UNCHANGED <<queues, hvars, pvars>>

\* let pop_count = ...load(); if push_count - pop_count == 0 { return None; }
MemPopLoadPop(t) ==
    /\ th[t].pc = "mem_pop_load_pop"
    /\ LET pop_count == queues[1].right.pop_count
           pc == MemSubtract(t, pop_count, U32Of(0), "mem_pop_ret", "mem_pop_read") IN
       th' = [th EXCEPT ![t].pop_count = pop_count, ![t].pc = pc,
                        ![t].ret_some = FALSE]
    /\ UNCHANGED <<queues, hvars, pvars>>

\* let path = self.buf.add((pop_count & (self.capacity - 1)) as usize).read();
\* the slot is moved out
MemPopRead(t) ==
    /\ th[t].pc = "mem_pop_read"
    /\ LET slot == Mask(th[t].pop_count, queues[1].right.capacity) IN
       /\ th' = [th EXCEPT ![t].path = queues[1].right.buf[slot],
                           ![t].pc = "mem_pop_add"]
       /\ queues' = [queues EXCEPT ![1].right.buf[slot] = Uninit]
    /\ UNCHANGED <<hvars, pvars>>

\* self.pop_count.fetch_add(1, Ordering::Release); Some(path)
MemPopAdd(t) ==
    /\ th[t].pc = "mem_pop_add"
    /\ queues' = [queues EXCEPT ![1].right.pop_count = Add32(@, 1)]
    /\ th' = [th EXCEPT ![t].pc = "mem_pop_ret", ![t].ret_some = TRUE]
    /\ popped' = Append(popped, th[t].path)
    /\ n_popped' = n_popped + 1
    /\ UNCHANGED <<next_path, n_accepted, call, pvars>>

\* MemPathQueue::state, called while no push and no pop is in progress; seen
\* is the number of paths the ring holds at the call
MemStateCall(t) ==
    /\ \A u \in DOMAIN th : RingBetween(u)
    /\ th' = [th EXCEPT
                 ![t].pc = IF env.overflow_checks
                              /\ Less32(queues[1].right.push_count, queues[1].right.pop_count)
                           THEN "panicked" ELSE "mem_state_ret",
                 ![t].state = IF env.overflow_checks
                                 /\ Less32(queues[1].right.push_count, queues[1].right.pop_count)
                              THEN "none" ELSE MemState(queues[1].right),
                 ![t].seen = n_accepted - n_popped]
    /\ UNCHANGED <<queues, hvars, pvars>>

\* one push thread and one pop thread on a ring
NextRing ==
    \/ MemPushCall(RingProducer)
    \/ MemPushLoadPush(RingProducer)
    \/ MemPushLoadPop(RingProducer)
    \/ MemPushWrite(RingProducer)
    \/ MemPushAdd(RingProducer)
    \/ MemPopCall(RingConsumer)
    \/ MemPopLoadPush(RingConsumer)
    \/ MemPopLoadPop(RingConsumer)
    \/ MemPopRead(RingConsumer)
    \/ MemPopAdd(RingConsumer)
    \/ MemStateCall(RingObserver)

SpecRing == InitRing /\ [][NextRing]_vars

-----------------------------------------------------------------------------
(* main.rs: main pushes the roots into queues[0] and spawns the workers;   *)
(* worker w runs breadth_first_traverse with index w - 1.                  *)

\* the spawned threads: num_threads = available_parallelism + 1
Workers == {1, 2}

num_threads == Cardinality(Workers)

MainThread == 0

PoolThread(pc, index) ==
    [pc |-> pc, q |-> 0, path |-> Uninit, ret_some |-> FALSE, cas_prev |-> FALSE,
     index |-> index, cur |-> Uninit, ents |-> <<>>, i |-> 0, pushed |-> <<>>]

InitPool ==
    /\ env \in Environments
    /\ queues = [i \in 0..(num_threads - 1) |-> PathQueueNew(PoolCap, PoolCap)]
    /\ th = [t \in {MainThread} \cup Workers |->
                IF t = MainThread THEN PoolThread("main_roots", 0)
                ELSE PoolThread("unborn", t - 1)]
    /\ counter = 0
    /\ emitted = EmptyBag
    /\ scanned = EmptyBag
    /\ next_path = 1
    /\ popped = <<>>
    /\ n_accepted = 0
    /\ n_popped = 0
    /\ call = <<>>

\* the paths main pushes: "." when no root is given
RootArgs == IF env.roots = <<>> THEN <<DotPath>> ELSE env.roots

\* a hidden-file test that lets every name through
HiddenNever(name) == FALSE

\* file_name begins with '.' while hidden entries are disabled
Hidden(name) == ~env.opt.allow_hidden /\ name # <<>> /\ name[1] = Dot

\* opt.ignores.iter().any(|item| item == file_name)
Ignored(name) == name \in env.opt.ignores

\* Path::file_name of a root argument
RootName(path) == LET c == Components(path) IN c[Len(c)]

\* main's `continue`s for a root argument
RootSkipped(path) ==
    \/ ~env.opt.follow_links /\ is_symlink(env.fs, path)
    \/ /\ env.roots # <<>>
       /\ path # DotPath
       /\ Hidden(RootName(path)) \/ Ignored(RootName(path))

\* main, one root per step: skip it, or call queues[0].push(path); after the
\* last root, spawn the workers
MainRoots ==
    /\ th[MainThread].pc = "main_roots"
    /\ LET r == th[MainThread].i + 1 IN
       IF r > Len(RootArgs)
       THEN th' = [t \in DOMAIN th |->
                      IF t = MainThread THEN [th[t] EXCEPT !.pc = "main_scope"]
                      ELSE [th[t] EXCEPT !.pc = "loop"]]
       ELSE IF RootSkipped(RootArgs[r])
       THEN th' = [th EXCEPT ![MainThread].i = r]
       ELSE th' = [th EXCEPT ![MainThread].i = r, ![MainThread].q = 0,
                             ![MainThread].path = RootArgs[r],
                             ![MainThread].pc = "push_try_pushing"]
    /\ UNCHANGED <<queues, hvars, pvars>>

\* a main that does not count the root it has pushed
MainPushRetUncounted ==
    /\ th[MainThread].pc = "push_ret"
    /\ th' = [th EXCEPT ![MainThread].pc = "main_roots",
                        ![MainThread].pushed =
                            IF th[MainThread].ret_some THEN @
                            ELSE Append(@, th[MainThread].path)]
    /\ UNCHANGED <<queues, hvars, pvars>>

\* if let Err(e) = queues[0].push(path) { exit(1) } else { counter += 1 }
MainPushRet ==
    /\ th[MainThread].pc = "push_ret"
    /\ counter' = counter + 1
    /\ th' = [th EXCEPT ![MainThread].pc = "main_roots",
                        ![MainThread].pushed =
                            IF th[MainThread].ret_some THEN @
                            ELSE Append(@, th[MainThread].path)]
    /\ UNCHANGED <<queues, hvars, env, emitted, scanned>>

\* loop { let path = pop_or_steal(queues, index)?; ... queues[index].pop()
WorkerLoop(w) ==
    /\ th[w].pc = "loop"
    /\ th' = [th EXCEPT ![w].pc = "pop_try_popping", ![w].q = th[w].index, ![w].i = -1]
    /\ UNCHANGED <<queues, hvars, pvars>>

\* for (i, queue) in queues.iter().enumerate() { if i != index { ... } }: the
\* queue index visited after i (-1 before the loop) among n queues, n when none
NextOtherOf(n, index, i) ==
    LET js == {j \in 0..(n - 1) : j > i /\ j # index} IN
    IF js = {} THEN n ELSE CHOOSE j \in js : \A k \in js : j <= k

\* the same over the queues of the pool
NextOther(index, i) == NextOtherOf(num_threads, index, i)

\* pop_or_steal after a pop: Some(path) starts read_dir(&path); None moves on
\* to the next queue, and past the last one pop_or_steal returns None
PoolPopRet(w) ==
    /\ th[w].pc = "pop_ret"
    /\ IF th[w].ret_some
       THEN LET entries == read_dir(env.fs, th[w].path) IN
            /\ scanned' = scanned (+) SetToBag({th[w].path})
            /\ th' = [th EXCEPT ![w].cur = th[w].path,
                                ![w].ents = entries.entries,
                                ![w].pc = IF entries.ok THEN "scan" ELSE "dec"]
       ELSE LET j == NextOther(th[w].index, th[w].i) IN
            /\ th' = IF j < num_threads
                     THEN [th EXCEPT ![w].pc = "pop_try_popping", ![w].q = j, ![w].i = j]
                     ELSE [th EXCEPT ![w].pc = "check_counter"]
            /\ UNCHANGED scanned
    /\ UNCHANGED <<queues, hvars, env, counter, emitted>>

\* the path of an entry: entry.path(), or with -L the target of a symlink
EntryPath(dir, e) ==
    LET path == Join(dir, env.fs[e].name) IN
    IF env.opt.follow_links /\ is_symlink(env.fs, path) THEN env.fs[e].text ELSE path

\* an entry that is printed: its name is text, is not hidden and not ignored
Printed(e) ==
    /\ env.fs[e].utf8
    /\ ~Hidden(env.fs[e].name)
    /\ ~Ignored(env.fs[e].name)

\* if path.is_dir() { push(queues, index, path)?; ... }
Enqueued(dir, e) == Printed(e) /\ is_dir(env.fs, EntryPath(dir, e))

\* one turn of `for entry in entries`, up to the call of push; after the last
\* entry the worker goes on to counter.fetch_sub
Scan(w) ==
    /\ th[w].pc = "scan"
    /\ IF th[w].ents = <<>>
       THEN /\ th' = [th EXCEPT ![w].pc = "dec"]
            /\ UNCHANGED emitted
       ELSE LET e == Head(th[w].ents)
                path == EntryPath(th[w].cur, e) IN
            /\ emitted' = IF Printed(e) THEN emitted (+) SetToBag({path}) ELSE emitted
            /\ th' = IF Enqueued(th[w].cur, e)
                     THEN [th EXCEPT ![w].ents = Tail(@), ![w].path = path,
                                     ![w].q = th[w].index, ![w].i = -1,
                                     ![w].pc = "push_try_pushing"]
                     ELSE [th EXCEPT ![w].ents = Tail(@)]
    /\ UNCHANGED <<queues, hvars, env, counter, scanned>>

\* main.rs push after a call of PathQueue::push: None returns; Some(p) goes to
\* the next queue: the others in index order, then the worker's own, again
PoolPushRet(w) ==
    /\ th[w].pc = "push_ret"
    /\ IF ~th[w].ret_some
       THEN th' = [th EXCEPT ![w].pc = "inc"]
       ELSE LET from == IF th[w].i = num_threads THEN -1 ELSE th[w].i
                j == NextOther(th[w].index, from) IN
            th' = [th EXCEPT ![w].pc = "push_try_pushing", ![w].i = j,
                             ![w].q = IF j = num_threads THEN th[w].index ELSE j]
    /\ UNCHANGED <<queues, hvars, pvars>>

\* a worker that does not count the subdirectory it has pushed
IncSkipped(w) ==
    /\ th[w].pc = "inc"
    /\ th' = [th EXCEPT ![w].pc = "scan"]
    /\ UNCHANGED <<queues, hvars, pvars>>

\* counter.fetch_add(1, Ordering::Release), after push has returned
Inc(w) ==
    /\ th[w].pc = "inc"
    /\ counter' = counter + 1
    /\ th' = [th EXCEPT ![w].pc = "scan"]
    /\ UNCHANGED <<queues, hvars, env, emitted, scanned>>

\* counter.fetch_sub(1, Ordering::Release); a negative counter stands for the
\* wrapped usize 2^64 + counter
Dec(w) ==
    /\ th[w].pc = "dec"
    /\ counter' = counter - 1
    /\ th' = [th EXCEPT ![w].pc = "loop", ![w].cur = Uninit, ![w].path = Uninit]
    /\ UNCHANGED <<queues, hvars, env, emitted, scanned>>

\* a worker that leaves its loop whenever pop_or_steal returns None
CheckCounterIgnored(w) ==
    /\ th[w].pc = "check_counter"
    /\ th' = [th EXCEPT ![w].pc = "done"]
    /\ UNCHANGED <<queues, hvars, pvars>>

\* else if counter.load(Ordering::Acquire) == 0 { break } else { sleep }
CheckCounter(w) ==
    /\ th[w].pc = "check_counter"
    /\ th' = [th EXCEPT ![w].pc = IF counter = 0 THEN "done" ELSE "loop"]
    /\ UNCHANGED <<queues, hvars, pvars>>

\* a step of a call of PathQueue::push or PathQueue::pop
PoolQueueStep(t) ==
    /\ PushStep(t) \/ PopStep(t)
    /\ UNCHANGED <<hvars, pvars>>

NextPool ==
    \/ MainRoots
    \/ MainPushRet
    \/ PoolQueueStep(MainThread)
    \/ \E w \in Workers :
        \/ WorkerLoop(w)
        \/ PoolPopRet(w)
        \/ Scan(w)
        \/ PoolPushRet(w)
        \/ Inc(w)
        \/ Dec(w)
        \/ CheckCounter(w)
        \/ PoolQueueStep(w)

SpecPool == InitPool /\ [][NextPool]_vars

-----------------------------------------------------------------------------
(* The pool when the spill file fails: TempfilePathQueue::new()? and       *)
(* mid.push(&p)? in PathQueue::push return the error to the caller         *)

RECURSIVE DrainErrs(_, _)
\* the queues a drain can leave when a mid.push(&p)? fails: p has been popped
\* from right and has not reached the log
DrainErrs(q, to_left) ==
    IF RingEmpty(q.right) THEN {}
    ELSE LET p == RingFront(q.right)
             q1 == [q EXCEPT !.right = RingRead(@)] IN
         IF to_left /\ ~RingFull(q1.left)
         THEN DrainErrs([q1 EXCEPT !.left = RingWrite(@, p)], to_left)
         ELSE {q1} \cup DrainErrs([q1 EXCEPT !.mid = TempfilePush(@, p)], to_left)

\* the queues PathQueue::push can leave when it returns Err with the spilling
\* lock held: mid could not be created, or a write to it failed
SpillErrs(q) ==
    LET q1 == IF q.mid.exists THEN q ELSE [q EXCEPT !.mid = TempfileNew] IN
    (IF q.mid.exists THEN {} ELSE {q}) \cup DrainErrs(q1, DrainsToLeft(q1.mid))

\* PathQueue::push returns Err: both guards are dropped
PushSpillErr(t) ==
    /\ th[t].pc = "push_spill"
    /\ \E r \in SpillErrs(queues[th[t].q]) :
          queues' = [queues EXCEPT ![th[t].q] =
                        [r EXCEPT !.spilling = FALSE, !.pushing = FALSE]]
    /\ Goto(t, "push_err")

\* a worker whose failed push also takes the directory it scans off the counter
PoolPushErrCleanup(t) ==
    /\ PushSpillErr(t)
    /\ counter' = counter - 1
    /\ UNCHANGED <<hvars, env, emitted, scanned>>

\* push(queues, index, path)?: the worker returns from breadth_first_traverse
\* with the error, and thread::scope drops it; in main the error is exit(1),
\* before any worker is spawned.  The thread takes no further step.
PoolPushErr(t) ==
    /\ PushSpillErr(t)
    /\ UNCHANGED <<hvars, pvars>>

\* the runs in which the spill file may fail
FailEnvironments ==
    {[fs |-> PlainTree, opt |-> Options(FALSE, FALSE, {}), roots |-> <<<<97>>, <<98>>>>],
     [fs |-> WideTree, opt |-> Options(FALSE, FALSE, {}), roots |-> <<>>],
     [fs |-> DeepTree, opt |-> Options(FALSE, FALSE, {}), roots |-> <<>>]}

InitFail ==
    /\ env \in FailEnvironments
    /\ queues = [i \in 0..(num_threads - 1) |-> PathQueueNew(PoolCap, PoolCap)]
    /\ th = [t \in {MainThread} \cup Workers |->
                IF t = MainThread THEN PoolThread("main_roots", 0)
                ELSE PoolThread("unborn", t - 1)]
    /\ counter = 0
    /\ emitted = EmptyBag
    /\ scanned = EmptyBag
    /\ next_path = 1
    /\ popped = <<>>
    /\ n_accepted = 0
    /\ n_popped = 0
    /\ call = <<>>

NextFail ==
    \/ NextPool
    \/ \E t \in DOMAIN th : PoolPushErr(t)

SpecFail == InitFail /\ [][NextFail]_vars

-----------------------------------------------------------------------------
(* pop_or_steal of one worker among n queues, of which those in           *)
(* env.holding hold a path: queue.pop() returns None on an empty queue     *)
(* and Some(path) or, when a lock is not obtained, None on the others      *)

\* visited: the queue indices on which this call has attempted pop, in order
StealThread(index) ==
    [pc |-> "loop", index |-> index, q |-> index, i |-> -1, ret_some |-> FALSE,
     visited |-> <<>>]

StealWorker == 1

InitSteal ==
    /\ \E n \in 1..MaxQueues, index \in 0..(MaxQueues - 1) :
          /\ index < n
          /\ \E holding \in SUBSET (0..(n - 1)) :
                env = [fs |-> <<>>, opt |-> Options(FALSE, FALSE, {}), roots |-> <<>>,
                       n |-> n, holding |-> holding]
          /\ th = [w \in {StealWorker} |-> StealThread(index)]
    /\ queues = <<>>
    /\ next_path = 1
    /\ popped = <<>>
    /\ n_accepted = 0
    /\ n_popped = 0
    /\ call = <<>>
    /\ counter = 0
    /\ emitted = EmptyBag
    /\ scanned = EmptyBag

\* pop_or_steal(queues, index): queues[index].pop()? is attempted first
StealCall(w) ==
    /\ th[w].pc \in {"loop", "steal_ret"}
    /\ th' = [th EXCEPT ![w].pc = "steal_pop", ![w].q = th[w].index, ![w].i = -1,
                        ![w].visited = <<>>, ![w].ret_some = FALSE]
    /\ UNCHANGED <<queues, hvars, pvars>>

\* queue.pop()? on queues[th[w].q] returns Some(path): pop_or_steal returns it
StealPopSome(w) ==
    /\ th[w].pc = "steal_pop"
    /\ th[w].q \in env.holding
    /\ th' = [th EXCEPT ![w].pc = "steal_ret", ![w].ret_some = TRUE,
                        ![w].visited = Append(@, th[w].q)]
    /\ UNCHANGED <<queues, hvars, pvars>>

\* queue.pop()? returns None: the next queue of the for loop, and Ok(None)
\* past the last
StealPopNone(w) ==
    /\ th[w].pc = "steal_pop"
    /\ LET j == NextOtherOf(env.n, th[w].index, th[w].i) IN
       th' = IF j < env.n
             THEN [th EXCEPT ![w].q = j, ![w].i = j, ![w].visited = Append(@, th[w].q)]
             ELSE [th EXCEPT ![w].pc = "steal_ret", ![w].ret_some = FALSE,
                             ![w].visited = Append(@, th[w].q)]
    /\ UNCHANGED <<queues, hvars, pvars>>

NextSteal ==
    \/ StealCall(StealWorker)
    \/ StealPopSome(StealWorker)
    \/ StealPopNone(StealWorker)

SpecSteal == InitSteal /\ [][NextSteal]_vars

-----------------------------------------------------------------------------
(* Claims about one queue *)

\* the first n harness paths, in the order the producer pushes them
FirstPaths(n) == [i \in 1..n |-> PathOf(i)]

\* the path a pop has taken from a stage and not yet returned
InHand(t) == IF th[t].pc = "pop_count" THEN <<th[t].path>> ELSE <<>>

\* C1: with one producer and one consumer, in every state the paths returned by
\* the successful pops, then the path the consumer has just taken, then the
\* resident paths in the order left, mid, right are the paths the producer has
\* placed, in the order it pushed them; the pops never outnumber the accepted
\* pushes.
FifoSpsc ==
    LET all == popped \o InHand(2) \o Resident(queues[1]) IN
    /\ all = FirstPaths(Len(all))
    /\ Len(popped) = n_popped
    /\ n_popped <= n_accepted
    /\ Len(all) \in {n_accepted, n_accepted + 1}

\* C1 witness: every path has been popped, paths went through left and through
\* the spill log, and the last one is taken from right
FifoSpscWitness ==
    /\ Len(popped) = MaxPush - 1
    /\ queues[1].left.pop_count # U32Of(0)
    /\ queues[1].mid.pop_count > 0
    /\ th[2].pc = "pop_right_read"

AllBetween == \A t \in Threads : Between(t)

\* C6 as stated: in every reachable state, accepted pushes minus successful
\* pops = push_count - pop_count = resident paths.
MassConservationAlways ==
    /\ n_accepted - n_popped = queues[1].push_count - queues[1].pop_count
    /\ queues[1].push_count - queues[1].pop_count = Len(Resident(queues[1]))

\* C6 amended: the equalities hold in every state in which no call of push or
\* pop is in progress.
MassConservation == AllBetween => MassConservationAlways

\* C6 witness: no call in progress, after a drain and a pop, paths resident
MassConservationWitness ==
    /\ AllBetween
    /\ queues[1].mid.exists
    /\ n_popped >= 1
    /\ Len(Resident(queues[1])) >= 1

\* C7: a single thread's pop returns None exactly when the unbounded FIFO of
\* the accepted paths is empty, and otherwise its head.
SpillTransparency ==
    th[1].pc = "pop_ret" =>
        IF th[1].ret_some
        THEN th[1].path = PathOf(n_popped)
        ELSE n_accepted = n_popped

\* C8: push hands the path back only when the lock it tried (pushing, or
\* spilling with right full) is taken.
PushRejectedOnlyWhenLocked ==
    \A t \in Threads :
        (th[t].pc = "push_ret" /\ th[t].ret_some) => th[t].cas_prev

-----------------------------------------------------------------------------
(* Claims about the pool *)

\* the workers have been spawned
Spawned == th[MainThread].pc = "main_scope"

AllDone == Spawned /\ \A w \in Workers : th[w].pc = "done"

RECURSIVE SumLen(_)
SumLen(S) ==
    IF S = {} THEN 0
    ELSE LET x == CHOOSE x \in S : TRUE IN Len(Resident(queues[x])) + SumLen(S \ {x})

\* the paths resident in all queues
ResidentAll == SumLen(DOMAIN queues)

\* worker w has taken a directory out of a queue and not yet finished it
\* (counter.fetch_sub is still to come)
InFlight(w) ==
    \/ th[w].pc = "pop_count"
    \/ th[w].pc = "pop_ret" /\ th[w].ret_some
    \/ th[w].cur # Uninit

\* worker w has placed a subdirectory in a queue and not yet counted it
\* (counter.fetch_add is still to come)
Uncounted(w) ==
    /\ th[w].cur # Uninit
    /\ \/ th[w].pc = "push_count"
       \/ th[w].pc = "push_ret" /\ ~th[w].ret_some
       \/ th[w].pc = "inc"

NumInFlight == Cardinality({w \in Workers : InFlight(w)})

NumUncounted == Cardinality({w \in Workers : Uncounted(w)})

\* a file system with no symlink, and no entry the filters drop
PlainEnv ==
    \A n \in DOMAIN env.fs :
        /\ env.fs[n].kind # "link"
        /\ n # 0 => Printed(n)

RECURSIVE EntriesUnder(_, _)
\* the paths of all entries beneath the directory at path (no symlinks)
EntriesUnder(path, n) ==
    LET kids == {env.fs[n].children[i] : i \in 1..Len(env.fs[n].children)} IN
    UNION {{Join(path, env.fs[c].name)} \cup EntriesUnder(Join(path, env.fs[c].name), c) :
              c \in kids}

\* the node a root argument names
RootNode(path) == Stat(env.fs, path).node

\* the roots main has pushed
PushedRoots == {th[MainThread].pushed[i] : i \in 1..Len(th[MainThread].pushed)}

\* what must be emitted: every entry beneath a pushed root
ExpectedEmitted == UNION {EntriesUnder(r, RootNode(r)) : r \in PushedRoots}

\* what must be scanned: the pushed roots and every directory beneath them
ExpectedScanned == PushedRoots \cup {p \in ExpectedEmitted : is_dir(env.fs, p)}

Stalled ==
    /\ Spawned
    /\ \A w \in Workers : th[w].pc # "done"
    /\ ResidentAll = 0
    /\ NumInFlight = 0
    /\ counter # 0

\* once stalled the pool stays stalled: the workers poll the empty queues and
\* the counter for ever
StalledForEver == [][Stalled => Stalled']_vars

\* C3, as a property a finite run refutes: the pool never stalls, so that under
\* fair scheduling the counter can still reach zero and the workers can leave
\* their loops.
TerminationPossible == ~Stalled

\* C4: when a worker is about to leave its loop (pop_or_steal returned None
\* and the counter it reads is 0), no directory is resident in a queue and no
\* worker is scanning one.
AuthoritativeTermination ==
    \A w \in Workers :
        (th[w].pc = "check_counter" /\ counter = 0) =>
            (ResidentAll = 0 /\ NumInFlight = 0)

\* C5: once the workers run, the counter is the number of directories
\* resident in the queues plus those popped and not yet finished.
CounterMeaning == Spawned => counter = ResidentAll + NumInFlight

\* the roots main has counted although push handed them back
RootsHandedBack ==
    Len(RootArgs) - Len(th[MainThread].pushed)
        - Cardinality({r \in 1..Len(RootArgs) : RootSkipped(RootArgs[r])})

\* what the counter is once the workers run: a subdirectory that is placed in a
\* queue is counted only by the fetch_add that follows
CounterValue ==
    Spawned => counter = ResidentAll + NumInFlight - NumUncounted + RootsHandedBack

\* the paths that are in a queue or on their way into one
EnqueuedPaths ==
    UNION {{Resident(queues[i])[k] : k \in 1..Len(Resident(queues[i]))} :
              i \in DOMAIN queues}
    \cup {th[t].path : t \in {t \in DOMAIN th : th[t].pc \in
                                 {"push_try_pushing", "push_right", "push_right_write",
                                  "push_try_spilling", "push_spill", "push_count",
                                  "push_ret", "inc"}}}

\* path p lies beneath path f
Beneath(p, f) ==
    /\ Len(p) > Len(f) + 1
    /\ SubSeq(p, 1, Len(f) + 1) = f \o <<Slash>>

\* the entries of the directory a scanned path names
ChildrenOf(d) ==
    LET entries == read_dir(env.fs, d).entries IN
    {entries[i] : i \in 1..Len(entries)}

\* the name begins with '.' while hidden entries are disabled, or equals an
\* entry of the ignore list
Filtered(name) ==
    \/ ~env.opt.allow_hidden /\ name # <<>> /\ Head(name) = Dot
    \/ name \in env.opt.ignores

\* a filtered child at path f was not emitted and not enqueued
NotEmittedNorEnqueued(f) ==
    /\ f \notin BagToSet(emitted)
    /\ f \notin BagToSet(scanned)
    /\ f \notin EnqueuedPaths

SymlinksNotFollowed ==
    ~env.opt.follow_links =>
        \A d \in BagToSet(scanned) : \A e \in ChildrenOf(d) :
            LET f == Join(d, env.fs[e].name) IN
            env.fs[e].kind = "link" =>
                /\ CopiesIn(f, emitted) <= 1
                /\ f \notin BagToSet(scanned)
                /\ f \notin EnqueuedPaths
                /\ \A p \in BagToSet(emitted) : ~Beneath(p, f)

\* the levels of path p below the root r it lies beneath
DepthBelow(p, r) == Len(Components(p)) - Len(Components(r))

\* C11: no entry deeper than max_depth levels below a pushed root is emitted,
\* and no directory at depth max_depth or deeper is enqueued or scanned.
DepthCap ==
    \A r \in PushedRoots :
        /\ \A p \in BagToSet(emitted) :
              Beneath(p, r) => DepthBelow(p, r) <= env.opt.max_depth
        /\ \A p \in BagToSet(scanned) \cup EnqueuedPaths :
              Beneath(p, r) => DepthBelow(p, r) < env.opt.max_depth

-----------------------------------------------------------------------------
(* Claims about the locks and the rings of a queue *)

\* thread t is in a call on queue i, at one of the positions pcs
At(t, i, pcs) == th[t].q = i /\ th[t].pc \in pcs

\* the positions of push between taking and dropping the pushing lock
PushingSection == {"push_right", "push_right_write", "push_try_spilling",
                   "push_spill", "push_count"}

\* the positions of pop between taking and dropping the popping lock
PoppingSection == {"pop_check", "pop_try_spilling", "pop_take",
                   "pop_right_read", "pop_count"}

\* the positions of push and of pop at which the spilling lock is held
SpillingSection == {"push_spill", "pop_take", "pop_right_read"}

\* the threads inside a section of queue i
Inside(i, section) == {t \in DOMAIN th : At(t, i, section)}

\* C12: for each queue at most one thread is inside the section guarded by
\* pushing, at most one inside the section guarded by popping and at most one
\* holds spilling; a lock's flag is set exactly while a thread is inside.
LockDiscipline ==
    \A i \in DOMAIN queues :
        /\ Cardinality(Inside(i, PushingSection)) <= 1
        /\ Cardinality(Inside(i, PoppingSection)) <= 1
        /\ Cardinality(Inside(i, SpillingSection)) <= 1
        /\ queues[i].pushing <=> Inside(i, PushingSection) # {}
        /\ queues[i].popping <=> Inside(i, PoppingSection) # {}
        /\ queues[i].spilling <=> Inside(i, SpillingSection) # {}

\* C12 witness: a thread drains right under the spilling lock while another
\* thread, inside the popping section, is about to try the spilling lock
LockDisciplineWitness ==
    \E t, u \in Threads :
        /\ th[t].pc = "push_spill"
        /\ th[u].pc = "pop_try_spilling"
        /\ n_popped >= 1

\* thread u is inside an access to left, mid or right of queue i: in the ring
\* push on right at the head of PathQueue::push (counts loaded, slot not yet
\* written), or in one of the sections under the spilling lock, where every
\* other access is made
Accessing(u, i) == At(u, i, {"push_right_write"} \cup SpillingSection)

\* C13 as stated: while a thread holds the spilling lock of a queue, no other
\* thread is inside an access to that queue's left, mid or right.
SpillExclusionAsStated ==
    \A i \in DOMAIN queues : \A t \in Inside(i, SpillingSection) :
        \A u \in DOMAIN th \ {t} : ~Accessing(u, i)

\* C13 amended: while a thread holds the spilling lock of a queue, the only
\* access another thread is inside is the ring push on right at the head of
\* PathQueue::push.
SpillExclusion ==
    \A i \in DOMAIN queues : \A t \in Inside(i, SpillingSection) :
        \A u \in DOMAIN th \ {t} :
            Accessing(u, i) => th[u].pc = "push_right_write"

\* C13 witness: one thread reads a slot of right under the spilling lock while
\* another is inside the ring push on right
SpillExclusionWitness ==
    \E t, u \in Threads :
        /\ th[t].pc = "pop_right_read"
        /\ th[u].pc = "push_right_write"

\* the positions at which a thread is inside MemPathQueue::push on right (line
\* 268, or line 285 under the spilling lock) and on left (line 276)
RightPushPositions == {"push_right_write", "push_spill"}
LeftPushPositions == {"push_spill"}

\* the positions at which a thread is inside MemPathQueue::pop on right (the
\* drain of lines 275 and 281, or lines 316 and 321) and on left (line 311)
RightPopPositions == {"push_spill", "pop_take", "pop_right_read"}
LeftPopPositions == {"pop_take"}

\* C14: each ring has at most one thread inside MemPathQueue::push and at most
\* one inside MemPathQueue::pop, and when one thread is about to write a slot
\* of right while another is about to read one, the two slots differ.
RingSpsc ==
    \A i \in DOMAIN queues :
        /\ Cardinality(Inside(i, RightPushPositions)) <= 1
        /\ Cardinality(Inside(i, LeftPushPositions)) <= 1
        /\ Cardinality(Inside(i, RightPopPositions)) <= 1
        /\ Cardinality(Inside(i, LeftPopPositions)) <= 1
        /\ \A u \in Inside(i, {"push_right_write"}) :
              \A t \in Inside(i, {"pop_right_read"}) :
                  Mask(queues[i].right.push_count, queues[i].right.capacity)
                      # Mask(queues[i].right.pop_count, queues[i].right.capacity)

\* C14 witness: in a ring of two slots one thread is about to write a slot
\* while another is about to read the other slot
RingSpscWitness ==
    \E t, u \in Threads :
        /\ th[t].pc = "pop_right_read"
        /\ th[u].pc = "push_right_write"
        /\ queues[1].right.capacity = 2
        /\ RingLen(queues[1].right) = U32Of(1)

-----------------------------------------------------------------------------
(* Claims about a ring on its own *)

\* the ring under test
Ring == queues[1].right

\* the slots of the ring that hold a path
Occupied == {i \in DOMAIN Ring.buf : Ring.buf[i] # Uninit}

\* the slots pop_count .. push_count - 1 taken modulo the capacity
CountedSlots ==
    {Mask(Add32(Ring.pop_count, j), Ring.capacity) : j \in 0..(Count32(RingLen(Ring)) - 1)}

\* c is the requested capacity rounded up to a power of two
RoundedUp(c, requested) ==
    /\ \E e \in 0..16 : c = 2 ^ e
    /\ requested <= c
    /\ c < 2 * requested

\* C15: 0 <= push_count - pop_count <= C with C the requested capacity rounded
\* up to a power of two; between calls exactly the slots pop_count ..
\* push_count - 1 modulo C hold a path; a ring push hands its path back exactly
\* when the ring held C paths as it loaded the counts: it writes the path only
\* when the ring held fewer, and it does not panic on a ring that held C; a
\* ring pop returns None exactly when the ring held no path as it loaded the
\* counts.
RingOccupancy ==
    /\ RoundedUp(Ring.capacity, env.capacity)
    /\ Count32(RingLen(Ring)) <= Ring.capacity
    /\ Count32(RingLen(Ring)) = n_accepted - n_popped
    /\ (RingBetween(RingProducer) /\ RingBetween(RingConsumer)) =>
          Occupied = CountedSlots
    /\ (th[RingProducer].pc = "mem_push_ret" /\ th[RingProducer].ret_some) =>
          n_accepted - th[RingProducer].seen = Ring.capacity
    /\ th[RingProducer].pc \in {"mem_push_write", "panicked"} =>
          n_accepted - th[RingProducer].seen # Ring.capacity
    /\ (th[RingConsumer].pc = "mem_pop_ret" /\ ~th[RingConsumer].ret_some) =>
          th[RingConsumer].seen = n_popped
    /\ th[RingConsumer].pc = "mem_pop_read" => th[RingConsumer].seen # n_popped

\* what holds of a ring in a build without overflow checks
RingOccupancyUnchecked == ~env.overflow_checks => RingOccupancy

\* the slots hold a path exactly as counted, also while a call is in progress
SlotsAsCounted == Occupied = CountedSlots

\* the state of a ring that holds n paths
StateOf(n, capacity) ==
    IF n = 0 THEN "Empty" ELSE IF n = capacity THEN "Full" ELSE "PartiallyFilled"

\* C19: in the states in which push_count has wrapped and is numerically
\* smaller than pop_count, no call has panicked, a push that has decided hands
\* its path back exactly when the ring held C paths, a pop that has decided
\* returns None exactly when it held none, state has returned the state of the
\* number of paths held, and the paths popped are the paths pushed, in order.
CounterWrap ==
    Less32(Ring.push_count, Ring.pop_count) =>
        /\ \A t \in DOMAIN th : th[t].pc # "panicked"
        /\ (th[RingProducer].pc = "mem_push_ret" /\ th[RingProducer].ret_some) =>
              n_accepted - th[RingProducer].seen = Ring.capacity
        /\ th[RingProducer].pc = "mem_push_write" =>
              n_accepted - th[RingProducer].seen < Ring.capacity
        /\ (th[RingConsumer].pc = "mem_pop_ret" /\ ~th[RingConsumer].ret_some) =>
              th[RingConsumer].seen = n_popped
        /\ th[RingConsumer].pc = "mem_pop_read" => th[RingConsumer].seen > n_popped
        /\ th[RingObserver].pc = "mem_state_ret" =>
              th[RingObserver].state = StateOf(th[RingObserver].seen, Ring.capacity)
        /\ popped = FirstPaths(n_popped)

\* what holds of the wrapped counts in a build without overflow checks
CounterWrapUnchecked == ~env.overflow_checks => CounterWrap

\* a ring whose push_count has wrapped while it holds paths, in a build
\* without overflow checks: the ring is full and a path has been popped
WrappedRing ==
    /\ ~env.overflow_checks
    /\ Less32(Ring.push_count, Ring.pop_count)
    /\ RingFull(Ring)
    /\ Ring.capacity > 1
    /\ n_popped >= 1

-----------------------------------------------------------------------------
(* Claims about the drain of right                                         *)

Min(a, b) == IF a <= b THEN a ELSE b

\* thread t drains right and pushes its path in this step
DrainStep(t) == th[t].pc = "push_spill" /\ th'[t].pc = "push_count"

\* a call of push by thread t returns in this step
PushReturns(t) == th[t].pc # "push_ret" /\ th'[t].pc = "push_ret"

\* the drain of queue q into r, with path pushed: with mid empty right's paths
\* go to left while it has room and the rest to mid, else they all go to mid;
\* right then holds the path alone
Drained(q, r, path) ==
    LET in_right == RingSeq(q.right)
        room == q.left.capacity - Len(RingSeq(q.left))
        fit == Min(room, Len(in_right)) IN
    /\ RingSeq(r.right) = <<path>>
    /\ IF TempfileSeq(q.mid) = <<>>
       THEN /\ RingSeq(r.left) = RingSeq(q.left) \o SubSeq(in_right, 1, fit)
            /\ TempfileSeq(r.mid) = SubSeq(in_right, fit + 1, Len(in_right))
       ELSE /\ RingSeq(r.left) = RingSeq(q.left)
            /\ TempfileSeq(r.mid) = TempfileSeq(q.mid) \o in_right

\* let q = PathQueue::new(2, 2)
TestQueue(q) == q.left.capacity = 2 /\ q.right.capacity = 2

\* the states tests::single_thread asserts after each push
TestStates ==
    << <<"Empty", "Empty", "PartiallyFilled">>,
       <<"Empty", "Empty", "Full">>,
       <<"Full", "Empty", "PartiallyFilled">>,
       <<"Full", "Empty", "Full">>,
       <<"Full", "PartiallyFilled", "PartiallyFilled">>,
       <<"Full", "PartiallyFilled", "Full">> >>

\* the pushes of tests::single_thread: nothing popped yet, and the call
\* returning in this step pushed the k-th path
TestPush(k) ==
    /\ TestQueue(queues[1])
    /\ n_popped = 0
    /\ k \in DOMAIN TestStates
    /\ PushReturns(1)
    /\ th[1].path = PathOf(k)

\* every drain of this step is as Drained says
DrainAction ==
    \A t \in Threads :
        DrainStep(t) => Drained(queues[th[t].q], queues'[th[t].q], th[t].path)

\* C16: a push that has found right full and holds the spilling lock drains
\* right as Drained says, and with capacities 2 and 2 the state after the push
\* of the k-th path is the k-th state tests::single_thread asserts.
DrainPolicy ==
    [][/\ DrainAction
       /\ \A k \in DOMAIN TestStates :
             TestPush(k) => State(queues'[1]) = TestStates[k]]_vars

\* the drains alone, whatever the threads do
DrainsAsStated == [][DrainAction]_vars

\* the drains, and the states asserted after the pushes that return Ok(None)
DrainPolicyAccepted ==
    [][/\ DrainAction
       /\ \A k \in DOMAIN TestStates :
             (TestPush(k) /\ ~th'[1].ret_some) => State(queues'[1]) = TestStates[k]]_vars

\* the six pushes of tests::single_thread have been accepted and the queue is
\* in the last state asserted
DrainedTwice ==
    /\ TestQueue(queues[1])
    /\ n_accepted = 6
    /\ n_popped = 0
    /\ State(queues[1]) = TestStates[6]

-----------------------------------------------------------------------------
(* Claims about the order of the stages                                    *)

\* the harness pushes its paths in order and retries one that is handed back,
\* so the k-th path is the k-th accepted
Age(p) == CHOOSE k \in 1..MaxPush : PathOf(k) = p

\* the paths of s are in acceptance order
InOrder(s) == \A i, j \in DOMAIN s : i < j => Age(s[i]) < Age(s[j])

\* every path of s was accepted before every path of r
AllBefore(s, r) == \A i \in DOMAIN s, j \in DOMAIN r : Age(s[i]) < Age(r[j])

\* C17: every path in left was accepted before every path in mid and in right,
\* every path in mid before every path in right, and each stage holds its
\* paths in acceptance order; so no drain has placed a path in left while an
\* older path is in mid.
StageAge ==
    \A i \in DOMAIN queues :
        LET in_left == RingSeq(queues[i].left)
            in_mid == TempfileSeq(queues[i].mid)
            in_right == RingSeq(queues[i].right) IN
        /\ InOrder(in_left) /\ InOrder(in_mid) /\ InOrder(in_right)
        /\ AllBefore(in_left, in_mid)
        /\ AllBefore(in_mid, in_right)
        /\ AllBefore(in_left, in_right)

\* C17 witness: left, mid and right all hold paths, two of them in mid, after a
\* drain that found mid non-empty and a pop
StageAgeWitness ==
    /\ Len(RingSeq(queues[1].left)) >= 1
    /\ Len(TempfileSeq(queues[1].mid)) >= 2
    /\ Len(RingSeq(queues[1].right)) >= 1
    /\ queues[1].mid.pop_count >= 1
    /\ n_popped >= 1

-----------------------------------------------------------------------------
(* Claims about the calls that fail                                        *)

\* C18: a call of pop that has returned Ok(None), and a call of push that has
\* returned Ok(Some(p)), has changed neither the paths of left, mid and right
\* nor push_count and pop_count, and p is the path that was passed in.
FailedCallsNoEffect ==
    \A t \in Threads :
        /\ (th[t].pc = "pop_ret" /\ ~th[t].ret_some) => ~call[t].touched
        /\ (th[t].pc = "push_ret" /\ th[t].ret_some) =>
              ~call[t].touched /\ th[t].path = call[t].path

\* C18 witness: a push has been handed back with right full and the spilling
\* lock held by a pop, and that pop has then returned Ok(None) at its own lock
\* test; the queue holds the paths it held
FailedCallsNoEffectWitness ==
    \E t, u \in Threads :
        /\ th[t].pc = "push_ret" /\ th[t].ret_some /\ th[t].cas_prev
        /\ RingFull(queues[1].right)
        /\ th[u].pc = "pop_ret" /\ ~th[u].ret_some
        /\ ~IsEmpty(queues[1])
        /\ n_accepted >= 2

-----------------------------------------------------------------------------
(* Claims about a worker that fails                                        *)

\* worker w has left its loop with the error of a push
Failed(w) == th[w].pc = "push_err"

\* C20: once a worker has left its loop with a queue error while scanning a
\* directory, that directory stays counted: the counter is above zero in every
\* later state, no worker that was still running leaves its loop, and the
\* worker that failed holds no lock of any queue.
WorkerFailureStalls ==
    [][\A w \in Workers :
          Failed(w)' =>
              /\ th'[w].cur # Uninit
              /\ counter' > 0
              /\ \A i \in DOMAIN queues :
                    /\ queues'[i].pushing => \E v \in DOMAIN th : th'[v].q = i /\ th'[v].pc \in PushingSection
                    /\ queues'[i].spilling => \E v \in DOMAIN th : th'[v].q = i /\ th'[v].pc \in SpillingSection
              /\ Failed(w) =>
                    \A v \in Workers : th'[v].pc = "done" => th[v].pc = "done"]_vars

\* C20 witness: a worker has failed, the other worker has popped and scanned
\* what was resident and, finding every queue empty, is about to read a counter
\* that is not zero
WorkerFailureStallsWitness ==
    \E w, v \in Workers :
        /\ Failed(w)
        /\ th[v].pc = "check_counter"
        /\ ResidentAll = 0
        /\ counter > 0
        /\ BagCardinality(scanned) >= 2

-----------------------------------------------------------------------------
(* Claims about the steal order                                            *)

\* worker i's own queue, then i+1, i+2, ... wrapping to 0, ..., i-1
RoundRobin(n, index) == [k \in 1..n |-> (index + k - 1) % n]

\* C21: the queues on which a call of pop_or_steal has attempted pop are
\* queue[i] and then the others round-robin from i+1, as far as the call has
\* got; it returns a path from the first queue whose pop gave one, and None
\* only after every queue.
StealOrder ==
    \A w \in DOMAIN th :
        LET seen == th[w].visited IN
        /\ Len(seen) <= env.n
        /\ seen = SubSeq(RoundRobin(env.n, th[w].index), 1, Len(seen))
        /\ (th[w].pc = "steal_ret" /\ ~th[w].ret_some) => Len(seen) = env.n

\* the order of the code: queue[i], then the others by rising index from 0
IndexOrder(n, index) ==
    <<index>> \o SelectSeq([k \in 1..n |-> k - 1], LAMBDA j : j # index)

\* what the code does instead
StealOrderByIndex ==
    \A w \in DOMAIN th :
        LET seen == th[w].visited IN
        /\ seen = SubSeq(IndexOrder(env.n, th[w].index), 1, Len(seen))
        /\ (th[w].pc = "steal_ret" /\ ~th[w].ret_some) => Len(seen) = env.n

-----------------------------------------------------------------------------
(* Claims about the value of the counter                                   *)

\* C22: the counter never underflows: it is never below zero, and a worker
\* that is about to execute counter.fetch_sub finds it above zero.
CounterNeverUnderflows ==
    /\ counter >= 0
    /\ \A w \in Workers : th[w].pc = "dec" => counter > 0

\* C22 witness: worker w is about to decrement for a directory that worker v
\* has pushed and not yet counted: it was stolen and scanned before v's
\* counter.fetch_add
CounterNeverUnderflowsWitness ==
    \E w, v \in Workers :
        /\ th[w].pc = "dec"
        /\ th[v].pc = "inc"
        /\ th[v].path = th[w].cur
        /\ counter = 1

RECURSIVE SumPushed(_)
\* the pushes the queues of S have counted
SumPushed(S) ==
    IF S = {} THEN 0
    ELSE LET x == CHOOSE x \in S : TRUE IN queues[x].push_count + SumPushed(S \ {x})

\* the directories placed in a queue so far: the pushes the queues have
\* counted and those about to be counted
NumPlaced ==
    SumPushed(DOMAIN queues) + Cardinality({t \in DOMAIN th : th[t].pc = "push_count"})

\* the directories a worker has popped, scanned and decremented for
NumFinished ==
    BagCardinality(scanned) - Cardinality({w \in Workers : th[w].cur # Uninit})

\* C23: once the workers run, whenever the counter is 0 no directory is
\* resident in any queue, and every directory that was placed in a queue and
\* is not finished is in the hands of a worker that has not left its loop.
ZeroCounterNothingQueued ==
    (Spawned /\ counter = 0) =>
        /\ ResidentAll = 0
        /\ NumPlaced - NumFinished = NumInFlight
        /\ \A w \in Workers : InFlight(w) => th[w].pc # "done"

\* C23 witness: the counter is 0, a worker has left its loop on reading it, and
\* the other worker, about to count the subdirectory it pushed, is still
\* scanning a directory with entries to come
ZeroCounterNothingQueuedWitness ==
    \E w, v \in Workers :
        /\ Spawned
        /\ counter = 0
        /\ th[v].pc = "done"
        /\ th[w].pc = "inc"
        /\ th[w].ents # <<>>

-----------------------------------------------------------------------------
(* Claims about the counts of a queue                                      *)

\* the pops on queue i that have taken a path and not yet counted it
NumTaken(i) == Cardinality({t \in DOMAIN th : At(t, i, {"pop_count"})})

\* a pop on queue i that holds the popping and the spilling lock finds a path
PopFindsPath(i) ==
    \A t \in DOMAIN th : At(t, i, {"pop_take"}) => Len(Resident(queues[i])) > 0

=============================================================================
